---- MODULE Spec2Model ----
(***************************************************************************)
(* The crowdnet training pipelines: the three training-loop variants       *)
(* (train_cnn.train, the module-level loop of train_gan, and               *)
(* train_srgan.train), the checkpoint store they write and read, the       *)
(* trial directory they name, and the operator console                     *)
(* (interface.Interface.train) with its message queue.                     *)
(*                                                                         *)
(* Abstractions.  A network's parameters are represented by their          *)
(* provenance: the number of optimizer updates and of completed passes     *)
(* that produced them.  An optimizer's internal state is the number of     *)
(* steps it has taken.  Loss values are the network's outputs: each batch  *)
(* yields a count loss and a density loss drawn from a set of values that  *)
(* the specification fixes (all of 0..MaxLoss, or MaxLoss alone where the  *)
(* values of the scalars play no part).  The metric streams are write-only *)
(* sinks: the model keeps the global_step of every record written and the  *)
(* values of the records of the latest flush.                              *)
(* Learning rates are numbered in abstract units.                          *)
(* A parameter's .grad buffer is represented by the set of backward passes *)
(* (loss, step) accumulated in it since it was last zeroed.  A report is   *)
(* three transitions (training statements and flush, validation pass and   *)
(* flush, step += 1); an iteration without a report is one.  The loader    *)
(* may fail during a validation pass and the process may be stopped        *)
(* between the two save_trainer calls of a checkpoint only in the          *)
(* specification that says so.                                             *)
(*                                                                         *)
(* The console is handed a network class that is not part of these         *)
(* sources; the process it starts is taken to run one of the training      *)
(* loops above, which is the only training code there is.  None of them    *)
(* has a queue parameter, so the queue only ever grows.                    *)
(***************************************************************************)
EXTENDS Integers, Sequences, FiniteSets, TLC

VARIABLES
    run,          \* run[r]: the local state of training process r
    hist,         \* hist[r]: history of process r (what it has done so far)
    checkpoints,  \* the bundles on disk, written by save_trainer
    clock,        \* wall-clock time, in half seconds
    queue,        \* Interface.queue: the messages put so far, never taken
    console,      \* Interface.train: position, last line read, all lines read
    forward       \* the supervised losses of the batch being put through D

vars == <<run, hist, checkpoints, clock, queue, console, forward>>

----------------------------------------------------------------------------
(* Bounds of the model.                                                    *)

MaxEpochs == 2
MaxSummaryPeriod == 2
MaxSavePeriod == 2
MaxTrainSize == 3
MaxBatchSize == 2
MaxValidationSize == 1
MaxLoss == 1
MaxLaunches == 2
MaxClock == 2
MaxLines == 3
NumRuns == 2
MaxDensity == 1

Runs == 1..NumRuns
Variants == {"cnn", "gan", "srgan"}
Roles == {"discriminator", "generator", "predictor"}

----------------------------------------------------------------------------
(* Settings and data loaders.                                              *)

\* settings.load_model_path = None
NoPath == [directory |-> <<>>, epoch |-> -1, step |-> -1]
\* a load_model_path under which no bundle was ever written
MissingPath == [directory |-> <<"logs", "missing", 0>>, epoch |-> 0, step |-> 0]

\* learning rates are counted in units of 1e-5
\* settings.learning_rate = 1e-5, as the script sets it
DefaultLearningRate == 1
\* Adam(..., lr=1e-3) of train_cnn, and the default lr of Adam(D.parameters())
AdamLearningRate == 100
\* the default lr of RMSprop(discriminator.parameters())
RMSpropLearningRate == 1000

\* the lr an optimizer has when it is constructed
ConstructedLearningRate(variant) ==
    IF variant = "gan" THEN RMSpropLearningRate ELSE AdamLearningRate

\* settings.learning_rate_multiplier_function, the lr_lambda of the schedulers
MultiplierFunctions == {"constant", "doubling"}
LearningRateMultiplier(function, epoch) ==
    IF function = "doubling" THEN 2 ^ epoch ELSE 1

\* torch DataLoader over `size` examples: number of batches per pass
NumBatches(size, batch_size) == (size + batch_size - 1) \div batch_size

\* size of the i-th batch (i in 1..NumBatches): full, except a shorter last one
BatchSizeAt(i, size, batch_size) ==
    IF i * batch_size <= size THEN batch_size ELSE size - (i - 1) * batch_size

\* does the variant read settings.load_model_path
LoadsCheckpoint(variant) == variant \in {"cnn", "srgan"}

\* the networks each variant hands to save_trainer
SavedRoles(variant) == IF variant = "gan" THEN {} ELSE {"discriminator", "generator"}

\* does the flush end with running_example_count = 0
ResetsExampleCount(variant) == variant # "gan"

\* the loader the validation loop iterates
ValidationLoader(variant) == IF variant = "gan" THEN "train" ELSE "validation"

ValidationBatches(s) ==
    IF ValidationLoader(s.variant) = "train"
    THEN NumBatches(s.train_size, s.batch_size)
    ELSE NumBatches(s.validation_size, s.batch_size)

\* the names accumulated in running_scalars (the loss triple; the other names
\* of each variant go through the same accumulate and flush statements)
TrainScalarNames(variant) ==
    IF variant = "gan"
    THEN {"Loss", "Count Loss", "Density Loss"}
    ELSE {"Labeled/Loss", "Labeled/Count Loss", "Labeled/Density Loss"}

ValidationScalarNames(variant) ==
    IF variant = "gan"
    THEN {"Count Loss", "Density Loss"}
    ELSE {"Labeled/Count Loss", "Labeled/Density Loss"}

\* loss = count_loss + (density_loss * 10), and the value added under each name
ScalarValue(name, count_loss, density_loss) ==
    IF name \in {"Loss", "Labeled/Loss"} THEN count_loss + (density_loss * 10)
    ELSE IF name \in {"Count Loss", "Labeled/Count Loss"} THEN count_loss
    ELSE density_loss

ShouldReportAtZero(step, summary_step_period) ==
    step % summary_step_period = 0

\* if step % settings.summary_step_period == 0 and step != 0
ShouldReport(step, summary_step_period) ==
    step % summary_step_period = 0 /\ step # 0

WhileConditionInclusive(epoch, number_of_epochs) == epoch <= number_of_epochs

\* while epoch < settings.number_of_epochs
WhileCondition(epoch, number_of_epochs) == epoch < number_of_epochs

\* if epoch != 0 and epoch % settings.save_epoch_period == 0
ShouldSave(epoch, save_epoch_period) ==
    epoch # 0 /\ epoch % save_epoch_period = 0

\* the generator update condition: step % 1 == 0 (srgan), step % 5 == 0 (gan)
GeneratorSteps(variant, step) ==
    IF variant = "srgan" THEN step % 1 = 0
    ELSE IF variant = "gan" THEN step % 5 = 0
    ELSE FALSE

\* datetime.datetime.now().strftime("y%Ym%md%dh%Hm%Ms%S"): whole seconds only
Strftime(now) == now \div 2

\* os.path.join(settings.log_directory, settings.trial_name + ' ' + datetime_string)
TrialDirectory(log_directory, trial_name, now) ==
    <<log_directory, trial_name, Strftime(now)>>

----------------------------------------------------------------------------
(* Networks, optimizers, checkpoint bundles.                               *)

\* a freshly constructed network with its freshly constructed optimizer
FreshNetwork(lr) ==
    [model |-> [updates |-> 0, passes |-> 0], optimizer |-> 0, lr |-> lr]

FreshNetworks(variant) ==
    [role \in Roles |-> FreshNetwork(ConstructedLearningRate(variant))]

\* backward passes done, optimizer.step(): one update of the parameters
OptimizerStep(net) ==
    [net EXCEPT !.model.updates = @ + 1, !.optimizer = @ + 1]

\* the optimizers stepped in one iteration of the batch loop
StepOptimizers(networks, variant, step) ==
    [role \in Roles |->
        IF role = "discriminator" THEN OptimizerStep(networks[role])
        ELSE IF role = "generator" /\ GeneratorSteps(variant, step)
             THEN OptimizerStep(networks[role])
        ELSE IF role = "predictor" /\ variant = "cnn"
             THEN OptimizerStep(networks[role])
        ELSE networks[role]]

\* one statement of an iteration that touches the .grad buffers
ZeroGrad(role) == [kind |-> "zero_grad", role |-> role, loss |-> "none", reaches |-> {}]
Backward(loss, reaches) ==
    [kind |-> "backward", role |-> "none", loss |-> loss, reaches |-> reaches]
Step(role) == [kind |-> "step", role |-> role, loss |-> "none", reaches |-> {}]

DiscriminatorPhaseEarlyStep(variant, gradient_penalty_on) ==
    IF variant = "srgan"
    THEN <<ZeroGrad("discriminator"),
           Backward("supervised", {"discriminator"}),
           Backward("unlabeled", {"discriminator"}),
           Backward("fake", {"discriminator"}),
           Step("discriminator"),
           Backward("feature norm", {"discriminator"})>>
         \o (IF gradient_penalty_on
             THEN <<Backward("gradient penalty", {"discriminator"})>>
             ELSE <<>>)
    ELSE IF variant = "gan"
    THEN <<ZeroGrad("discriminator"),
           Backward("supervised", {"discriminator"}),
           Step("discriminator"),
           Backward("fake", {"discriminator", "generator"})>>
    ELSE <<ZeroGrad("discriminator"),
           Step("discriminator"),
           Backward("supervised", {"discriminator"}),
           ZeroGrad("predictor"),
           Backward("predictor", {"predictor"}),
           Step("predictor")>>

\* the statements from discriminator_optimizer.zero_grad() to
\* discriminator_optimizer.step(), in program order; a backward pass reaches
\* the networks its loss was computed through without detach()
DiscriminatorPhase(variant, gradient_penalty_on) ==
    IF variant = "srgan"
    THEN <<ZeroGrad("discriminator"),
           Backward("supervised", {"discriminator"}),
           Backward("unlabeled", {"discriminator"}),
           Backward("fake", {"discriminator"}),
           Backward("feature norm", {"discriminator"})>>
         \o (IF gradient_penalty_on
             THEN <<Backward("gradient penalty", {"discriminator"})>>
             ELSE <<>>)
         \o <<Step("discriminator")>>
    ELSE IF variant = "gan"
    THEN <<ZeroGrad("discriminator"),
           Backward("supervised", {"discriminator"}),
           Backward("fake", {"discriminator", "generator"}),
           Step("discriminator")>>
    ELSE <<ZeroGrad("discriminator"),
           Backward("supervised", {"discriminator"}),
           ZeroGrad("predictor"),
           Backward("predictor", {"predictor"}),
           Step("predictor"),
           Step("discriminator")>>

GeneratorPhaseNoZeroGrad(variant, step) ==
    IF GeneratorSteps(variant, step)
    THEN <<Backward("generator", {"discriminator", "generator"}), Step("generator")>>
    ELSE <<>>

\* the statements of the generator update, in program order
GeneratorPhase(variant, step) ==
    IF variant = "srgan"
    THEN IF GeneratorSteps(variant, step)
         THEN <<ZeroGrad("generator"),
                Backward("generator", {"discriminator", "generator"}),
                Step("generator")>>
         ELSE <<>>
    ELSE IF variant = "gan"
    THEN <<ZeroGrad("generator")>>
         \o (IF GeneratorSteps(variant, step)
             THEN <<Backward("generator", {"discriminator", "generator"}),
                    Step("generator")>>
             ELSE <<>>)
    ELSE <<>>

\* the gradient statements of one iteration of the batch loop
StepOps(variant, step, gradient_penalty_on) ==
    DiscriminatorPhase(variant, gradient_penalty_on) \o GeneratorPhase(variant, step)

\* the .grad buffers after one statement: zero_grad clears its optimizer's
\* parameters, backward accumulates into every network it reaches
ApplyOp(gradients, op, step) ==
    IF op.kind = "zero_grad" THEN [gradients EXCEPT ![op.role] = {}]
    ELSE IF op.kind = "backward"
    THEN [role \in Roles |->
            IF role \in op.reaches
            THEN gradients[role] \cup {[loss |-> op.loss, step |-> step]}
            ELSE gradients[role]]
    ELSE gradients

RECURSIVE GradientsAfter(_, _, _)
GradientsAfter(gradients, ops, step) ==
    IF ops = <<>> THEN gradients
    ELSE GradientsAfter(ApplyOp(gradients, Head(ops), step), Tail(ops), step)

\* what the latest optimizer.step() of `role` applied: the content of its
\* parameters' .grad buffers when it ran
AppliedBy(gradients, ops, step, role, previous) ==
    LET at == {i \in 1..Len(ops) : ops[i] = Step(role)}
    IN IF at = {} THEN previous
       ELSE LET i == CHOOSE k \in at : \A j \in at : j <= k
            IN [at |-> step,
                gradients |-> GradientsAfter(gradients, SubSeq(ops, 1, i - 1), step)[role]]

ValidationForwardTrains(networks, variant) == StepOptimizers(networks, variant, 0)

\* one iteration of the validation loop: forward passes only, no backward
\* pass and no optimizer step
ValidationForward(networks, variant) == networks

\* epoch += 1: the parameters have seen one more pass
EndPass(networks) ==
    [role \in Roles |-> [networks[role] EXCEPT !.model.passes = @ + 1]]

\* save_trainer(trial_directory, model, optimizer, epoch, step, prefix)
Bundle(directory, prefix, net, epoch, step) ==
    [directory |-> directory, prefix |-> prefix, epoch |-> epoch, step |-> step,
     model |-> net.model, optimizer |-> net.optimizer, lr |-> net.lr]

SaveTrainer(store, directory, prefix, net, epoch, step) ==
    {b \in store : ~(b.directory = directory /\ b.prefix = prefix
                     /\ b.epoch = epoch /\ b.step = step)}
    \cup {Bundle(directory, prefix, net, epoch, step)}

\* the checkpoint a variant writes: one save_trainer call per saved role
SaveCheckpoint(store, variant, directory, networks, epoch, step) ==
    LET withD == IF "discriminator" \in SavedRoles(variant)
                 THEN SaveTrainer(store, directory, "discriminator",
                                  networks["discriminator"], epoch, step)
                 ELSE store
    IN IF "generator" \in SavedRoles(variant)
       THEN SaveTrainer(withD, directory, "generator", networks["generator"], epoch, step)
       ELSE withD

\* the bundles load_trainer(prefix) finds under settings.load_model_path
FoundBundles(store, path, prefix) ==
    {b \in store : b.directory = path.directory /\ b.prefix = prefix
                   /\ b.epoch = path.epoch /\ b.step = path.step}

\* D.load_state_dict(d_model_state_dict)
LoadModelState(net, b) == [net EXCEPT !.model = b.model]

\* discriminator_optimizer.load_state_dict(d_optimizer_state_dict): the step
\* state and the param_groups, which hold the lr
LoadOptimizerState(net, b) == [net EXCEPT !.optimizer = b.optimizer, !.lr = b.lr]

\* the calls of the two load blocks, in program order
LoadCalls == <<"d_bundle", "d_model", "d_optimizer", "g_bundle", "g_model", "g_optimizer">>

\* the place of a call in program order; "none" (no call raises) is after all
CallIndex(call) ==
    IF call = "none" THEN Len(LoadCalls) + 1
    ELSE CHOOSE i \in 1..Len(LoadCalls) : LoadCalls[i] = call

\* has `call` returned when `stop` is the call that raises
Returned(call, stop) == CallIndex(call) < CallIndex(stop)

\* the calls that can raise: load_trainer when no bundle is found (the later
\* calls are then not reached), load_state_dict on a state that does not fit
LoadStops(wanted, d_found, g_found) ==
    IF ~wanted THEN {"none"}
    ELSE IF d_found = {} THEN {"d_bundle"}
    ELSE {"d_model", "d_optimizer"}
         \cup (IF g_found = {} THEN {"g_bundle"}
               ELSE {"g_model", "g_optimizer", "none"})

ResumeEpochOnly(b) == [epoch |-> b.epoch, step |-> 0]

\* ..., epoch, step = load_trainer(prefix='discriminator')
ResumeCounters(b) == [epoch |-> b.epoch, step |-> b.step]

AfterLoadFallback(loaded) == "trial"

\* where train() is after the load statements: an exception of load_trainer or
\* load_state_dict is not caught, so train() ends with it
AfterLoad(loaded) == IF loaded THEN "trial" ELSE "failed"

\* optimizer.param_groups[0].update({'lr': ...}) after a load block; train_cnn
\* has no such statement
ActiveLearningRate(variant, net, learning_rate) ==
    IF variant = "cnn" THEN net.lr ELSE learning_rate

\* discriminator_scheduler.step(epoch); generator_scheduler.step(epoch) of
\* train_gan: LambdaLR sets lr = initial lr * lr_lambda(epoch)
SchedulerStep(networks, s, epoch) ==
    IF s.variant = "gan"
    THEN [role \in Roles |->
            IF role \in {"discriminator", "generator"}
            THEN [networks[role] EXCEPT
                    !.lr = s.learning_rate
                             * LearningRateMultiplier(s.learning_rate_multiplier_function, epoch)]
            ELSE networks[role]]
    ELSE networks

----------------------------------------------------------------------------
(* The state of one training process.                                      *)

SettingsSpace(variants, names, epochs) ==
    [variant : variants, trial_name : names, log_directory : {"logs"},
     number_of_epochs : epochs,
     summary_step_period : 1..MaxSummaryPeriod,
     save_epoch_period : 1..MaxSavePeriod,
     train_size : 1..MaxTrainSize, batch_size : 1..MaxBatchSize,
     validation_size : 0..MaxValidationSize,
     gradient_penalty_on : {TRUE},
     learning_rate : {DefaultLearningRate},
     learning_rate_multiplier_function : {"constant"},
     load_model_path : {NoPath}]

IdleSettings ==
    [variant |-> "cnn", trial_name |-> "cnn", log_directory |-> "logs",
     number_of_epochs |-> 0, summary_step_period |-> 1, save_epoch_period |-> 1,
     train_size |-> 1, batch_size |-> 1, validation_size |-> 1,
     gradient_penalty_on |-> TRUE,
     learning_rate |-> DefaultLearningRate,
     learning_rate_multiplier_function |-> "constant",
     load_model_path |-> NoPath]

EmptyStream == [steps |-> {}, last |-> {}]

\* defaultdict(float): no key until a name is first accumulated
EmptyScalars == [n \in {} |-> 0]

\* d[name] of a defaultdict(float)
ScalarAt(d, name) == IF name \in DOMAIN d THEN d[name] ELSE 0

\* .grad of every parameter is None until a backward pass reaches it
NoGradients == [role \in Roles |-> {}]

\* train() up to step = 0; epoch = 0: networks and optimizers constructed
FreshRun(settings) ==
    [pc |-> "load", settings |-> settings, epoch |-> 0, step |-> 0, batch |-> 0,
     networks |-> FreshNetworks(settings.variant),
     gradients |-> NoGradients,
     running_scalars |-> EmptyScalars,
     validation_running_scalars |-> EmptyScalars,
     running_example_count |-> 0,
     trial_directory |-> <<>>,
     summary_writer |-> EmptyStream,
     validation_summary_writer |-> EmptyStream,
     validation_pass |-> [loader |-> "none", batches |-> 0]]

IdleRun == [FreshRun(IdleSettings) EXCEPT !.pc = "idle"]

ZeroWindow(variant) ==
    [examples |-> 0, sums |-> [n \in TrainScalarNames(variant) |-> 0]]

\* the history of a process that has just been started for the k-th time
FreshHist(k, variant) ==
    [launches |-> k, load_failed |-> FALSE, steps_run |-> 0, saves |-> 0,
     window |-> ZeroWindow(variant), closed |-> ZeroWindow(variant),
     ops |-> <<>>,
     applied |-> [role \in Roles |-> [at |-> -1, gradients |-> {}]],
     validation_sums |-> EmptyScalars,
     validation_failed |-> FALSE, zero_division |-> FALSE]

Terminated(r) == run[r].pc \in {"finished", "failed", "stopped"}
Alive(r) == run[r].pc \in {"load", "trial", "while", "batch", "validation", "advance"}

\* the values settings.load_model_path can be given when a run is started
PathChoices(variant) ==
    IF LoadsCheckpoint(variant)
    THEN {NoPath, MissingPath}
         \cup {[directory |-> b.directory, epoch |-> b.epoch, step |-> b.step] :
                 b \in checkpoints}
    ELSE {NoPath}

\* a later run of the same experiment: only the number of epochs and the load
\* path are changed between runs
SameExperiment(a, b) ==
    [a EXCEPT !.number_of_epochs = 0, !.load_model_path = NoPath]
      = [b EXCEPT !.number_of_epochs = 0, !.load_model_path = NoPath]

----------------------------------------------------------------------------
(* The training process.                                                   *)

\* the process is started: train(settings) runs up to the load statements
LaunchEffect(r, configs, max_launches) ==
    /\ run[r].pc \in {"idle", "finished", "failed", "stopped"}
    /\ hist[r].launches < max_launches
    /\ \E base \in configs : \E path \in PathChoices(base.variant) :
         /\ hist[r].launches > 0 => SameExperiment(base, run[r].settings)
         /\ run' = [run EXCEPT ![r] =
                       FreshRun([base EXCEPT !.load_model_path = path])]
         /\ hist' = [hist EXCEPT ![r] =
                       FreshHist(hist[r].launches + 1, base.variant)]

Launch(r, configs, max_launches) ==
    /\ console.pc = "off"
    /\ LaunchEffect(r, configs, max_launches)
    /\ UNCHANGED <<checkpoints, clock, queue, console, forward>>

\* the networks after the two `if settings.load_model_path:` blocks and the
\* param_groups updates that follow them, when `stop` is the call that raises:
\* a statement acts only when every call before it has returned
LoadedNetworks(networks, variant, learning_rate, wanted, stop, d_bundle, g_bundle) ==
    LET d0 == networks["discriminator"]
        d1 == IF wanted /\ Returned("d_model", stop) THEN LoadModelState(d0, d_bundle) ELSE d0
        d2 == IF wanted /\ Returned("d_optimizer", stop)
              THEN LoadOptimizerState(d1, d_bundle) ELSE d1
        d3 == IF ~wanted \/ Returned("d_optimizer", stop)
              THEN [d2 EXCEPT !.lr = ActiveLearningRate(variant, d2, learning_rate)] ELSE d2
        g0 == networks["generator"]
        g1 == IF wanted /\ Returned("g_model", stop) THEN LoadModelState(g0, g_bundle) ELSE g0
        g2 == IF wanted /\ Returned("g_optimizer", stop)
              THEN LoadOptimizerState(g1, g_bundle) ELSE g1
        g3 == IF ~wanted \/ Returned("g_optimizer", stop)
              THEN [g2 EXCEPT !.lr = ActiveLearningRate(variant, g2, learning_rate)] ELSE g2
    IN [networks EXCEPT !["discriminator"] = d3, !["generator"] = g3]

\* step = 0; epoch = 0; the discriminator and generator load blocks, each
\* load_trainer, model load_state_dict, optimizer load_state_dict in turn; in
\* train_gan the lr updates and the first scheduler.step(epoch) instead
LoadTrainers(r) ==
    LET me == run[r]
        s == me.settings
        wanted == LoadsCheckpoint(s.variant) /\ s.load_model_path # NoPath
        d_found == FoundBundles(checkpoints, s.load_model_path, "discriminator")
        g_found == FoundBundles(checkpoints, s.load_model_path, "generator")
    IN
    /\ me.pc = "load"
    /\ \E stop \in LoadStops(wanted, d_found, g_found) :
         LET d_bundle == IF d_found # {} THEN CHOOSE b \in d_found : TRUE
                         ELSE Bundle(<<>>, "discriminator", me.networks["discriminator"], 0, 0)
             g_bundle == IF g_found # {} THEN CHOOSE b \in g_found : TRUE
                         ELSE Bundle(<<>>, "generator", me.networks["generator"], 0, 0)
             counters == IF wanted /\ Returned("d_bundle", stop)
                         THEN ResumeCounters(d_bundle)
                         ELSE [epoch |-> 0, step |-> 0]
             loaded == stop = "none"
         IN /\ run' = [run EXCEPT ![r] =
                  [me EXCEPT
                     !.pc = AfterLoad(loaded),
                     !.epoch = counters.epoch,
                     !.step = counters.step,
                     !.networks =
                         SchedulerStep(
                             LoadedNetworks(me.networks, s.variant, s.learning_rate,
                                            wanted, stop, d_bundle, g_bundle),
                             s, counters.epoch)]]
            /\ hist' = [hist EXCEPT ![r].load_failed = ~loaded]
    /\ UNCHANGED <<checkpoints, clock, queue, console, forward>>

\* running_scalars = defaultdict(float) ... os.makedirs(trial_directory, exist_ok=True)
\* and the two SummaryWriters
CreateTrial(r) ==
    LET me == run[r]
        s == me.settings
    IN
    /\ me.pc = "trial"
    /\ \E now \in clock..MaxClock :
         /\ clock' = now
         /\ run' = [run EXCEPT ![r] =
               [me EXCEPT !.pc = "while",
                          !.trial_directory =
                              TrialDirectory(s.log_directory, s.trial_name, now)]]
    /\ UNCHANGED <<hist, checkpoints, queue, console, forward>>

\* while epoch < settings.number_of_epochs: the loader starts a pass
BeginEpoch(r) ==
    LET me == run[r]
    IN
    /\ me.pc = "while"
    /\ WhileCondition(me.epoch, me.settings.number_of_epochs)
    /\ run' = [run EXCEPT ![r] = [me EXCEPT !.pc = "batch", !.batch = 0]]
    /\ UNCHANGED <<hist, checkpoints, clock, queue, console, forward>>

\* the records one flush writes: mean_scalar = running_scalar / divisor
FlushRecords(scalars, divisor, step) ==
    {[name |-> n, scalar_sum |-> scalars[n], divisor |-> divisor, global_step |-> step] :
        n \in DOMAIN scalars}

WriteStream(stream, records, step) ==
    [steps |-> stream.steps \cup {step}, last |-> records]

\* the sums n batches can accumulate when each yields a loss in `losses`
\* (`losses` is an interval)
SumsOf(losses, n) ==
    {v \in 0..(n * MaxLoss) :
        \E lo, hi \in losses : n * lo <= v /\ v <= n * hi}

\* one iteration of `for examples in train_dataset_loader:` up to the flush of
\* the training scalars; without a report the iteration ends with step += 1
TrainStep(r, losses) ==
    LET me == run[r]
        s == me.settings
        size == BatchSizeAt(me.batch + 1, s.train_size, s.batch_size)
        report == ShouldReport(me.step, s.summary_step_period)
        ops == StepOps(s.variant, me.step, s.gradient_penalty_on)
    IN
    /\ me.pc = "batch"
    /\ me.batch < NumBatches(s.train_size, s.batch_size)
    /\ \E count_loss, density_loss \in losses :
         LET scalars == [n \in TrainScalarNames(s.variant) |->
                           ScalarAt(me.running_scalars, n)
                             + ScalarValue(n, count_loss, density_loss)]
             count == me.running_example_count + size
             window == [examples |-> hist[r].window.examples + size,
                        sums |-> [n \in DOMAIN hist[r].window.sums |->
                                    hist[r].window.sums[n]
                                      + ScalarValue(n, count_loss, density_loss)]]
         IN /\ run' = [run EXCEPT ![r] =
                  [me EXCEPT
                     !.pc = IF report THEN "validation" ELSE "batch",
                     !.networks = StepOptimizers(me.networks, s.variant, me.step),
                     !.gradients = GradientsAfter(me.gradients, ops, me.step),
                     !.running_scalars =
                         IF report THEN [n \in DOMAIN scalars |-> 0] ELSE scalars,
                     !.running_example_count =
                         IF report /\ ResetsExampleCount(s.variant) THEN 0 ELSE count,
                     !.summary_writer =
                         IF report
                         THEN WriteStream(@, FlushRecords(scalars, count, me.step), me.step)
                         ELSE @,
                     !.step = IF report THEN @ ELSE @ + 1,
                     !.batch = IF report THEN @ ELSE @ + 1]]
            /\ hist' = [hist EXCEPT
                  ![r].steps_run = @ + 1,
                  ![r].window = IF report THEN ZeroWindow(s.variant) ELSE window,
                  ![r].closed = IF report THEN window ELSE @,
                  ![r].ops = ops,
                  ![r].applied =
                      [role \in Roles |->
                          AppliedBy(me.gradients, ops, me.step, role, @[role])]]
    /\ UNCHANGED <<checkpoints, clock, queue, console, forward>>

\* the validation loop of a report and the flush of the validation scalars;
\* the division by len(validation_dataset) raises ZeroDivisionError when a
\* name was accumulated and the validation set is empty
Validation(r, losses) ==
    LET me == run[r]
        s == me.settings
        batches == ValidationBatches(s)
        names == DOMAIN me.validation_running_scalars
                   \cup (IF batches = 0 THEN {} ELSE ValidationScalarNames(s.variant))
        raises == names # {} /\ s.validation_size = 0
    IN
    /\ me.pc = "validation"
    /\ \E v_count_loss, v_density_loss \in SumsOf(losses, batches) :
         LET sums == IF batches = 0 THEN EmptyScalars
                     ELSE [n \in ValidationScalarNames(s.variant) |->
                             ScalarValue(n, v_count_loss, v_density_loss)]
             v_scalars == [n \in names |->
                             ScalarAt(me.validation_running_scalars, n) + ScalarAt(sums, n)]
         IN /\ run' = [run EXCEPT ![r] =
                  [me EXCEPT
                     !.pc = IF raises THEN "failed" ELSE "advance",
                     !.networks = IF batches > 0 THEN ValidationForward(@, s.variant) ELSE @,
                     !.validation_running_scalars =
                         IF raises THEN v_scalars ELSE [n \in DOMAIN v_scalars |-> 0],
                     !.validation_summary_writer =
                         IF raises THEN [@ EXCEPT !.steps = @ \cup {me.step}]
                         ELSE WriteStream(@, FlushRecords(v_scalars, s.validation_size, me.step),
                                          me.step),
                     !.validation_pass =
                         [loader |-> ValidationLoader(s.variant), batches |-> batches]]]
            /\ hist' = [hist EXCEPT
                  ![r].validation_sums = sums,
                  ![r].zero_division = raises]
    /\ UNCHANGED <<checkpoints, clock, queue, console, forward>>

\* step += 1 at the end of an iteration that reported
NextStep(r) ==
    LET me == run[r]
    IN
    /\ me.pc = "advance"
    /\ run' = [run EXCEPT ![r] =
          [me EXCEPT !.pc = "batch", !.step = @ + 1, !.batch = @ + 1]]
    /\ UNCHANGED <<hist, checkpoints, clock, queue, console, forward>>

\* a validation batch cannot be loaded: the loader's exception is raised
\* inside the validation loop, where nothing catches it; the batches read
\* before it have been added to validation_running_scalars
ValidationFails(r, losses) ==
    LET me == run[r]
        s == me.settings
    IN
    /\ me.pc = "validation"
    /\ \E failing \in 1..ValidationBatches(s) :
       \E v_count_loss, v_density_loss \in SumsOf(losses, failing - 1) :
         LET names == DOMAIN me.validation_running_scalars
                        \cup (IF failing = 1 THEN {} ELSE ValidationScalarNames(s.variant))
             v_scalars == [n \in names |->
                             ScalarAt(me.validation_running_scalars, n)
                               + (IF failing > 1 /\ n \in ValidationScalarNames(s.variant)
                                  THEN ScalarValue(n, v_count_loss, v_density_loss)
                                  ELSE 0)]
         IN run' = [run EXCEPT ![r] =
               [me EXCEPT
                  !.pc = "failed",
                  !.networks = IF failing > 1 THEN ValidationForward(@, s.variant) ELSE @,
                  !.validation_running_scalars = v_scalars]]
    /\ hist' = [hist EXCEPT ![r].validation_failed = TRUE]
    /\ UNCHANGED <<checkpoints, clock, queue, console, forward>>

\* the pass is exhausted: epoch += 1, the scheduler steps of train_gan and the
\* periodic save of train_cnn and train_srgan
EndEpoch(r) ==
    LET me == run[r]
        s == me.settings
        epoch == me.epoch + 1
        networks == SchedulerStep(EndPass(me.networks), s, epoch)
        saving == ShouldSave(epoch, s.save_epoch_period) /\ SavedRoles(s.variant) # {}
    IN
    /\ me.pc = "batch"
    /\ me.batch = NumBatches(s.train_size, s.batch_size)
    /\ run' = [run EXCEPT ![r] =
          [me EXCEPT !.pc = "while", !.epoch = epoch, !.networks = networks]]
    /\ checkpoints' =
          IF saving
          THEN SaveCheckpoint(checkpoints, s.variant, me.trial_directory, networks,
                              epoch, me.step)
          ELSE checkpoints
    /\ hist' = [hist EXCEPT ![r].saves = IF saving THEN @ + 1 ELSE @]
    /\ UNCHANGED <<clock, queue, console, forward>>

\* the while condition is false: the final save_trainer calls, then return
Finish(r) ==
    LET me == run[r]
        s == me.settings
        saving == SavedRoles(s.variant) # {}
    IN
    /\ me.pc = "while"
    /\ ~WhileCondition(me.epoch, s.number_of_epochs)
    /\ run' = [run EXCEPT ![r] = [me EXCEPT !.pc = "finished"]]
    /\ checkpoints' =
          SaveCheckpoint(checkpoints, s.variant, me.trial_directory, me.networks,
                         me.epoch, me.step)
    /\ hist' = [hist EXCEPT ![r].saves = IF saving THEN @ + 1 ELSE @]
    /\ UNCHANGED <<clock, queue, console, forward>>

\* the process is stopped between the save_trainer call for the discriminator
\* and the one for the generator, at a periodic save or at the final save
StopDuringSave(r) ==
    LET me == run[r]
        s == me.settings
        at_final == me.pc = "while" /\ ~WhileCondition(me.epoch, s.number_of_epochs)
        at_periodic == /\ me.pc = "batch"
                       /\ me.batch = NumBatches(s.train_size, s.batch_size)
                       /\ ShouldSave(me.epoch + 1, s.save_epoch_period)
        epoch == IF at_periodic THEN me.epoch + 1 ELSE me.epoch
        networks == IF at_periodic THEN EndPass(me.networks) ELSE me.networks
    IN
    /\ at_final \/ at_periodic
    /\ "discriminator" \in SavedRoles(s.variant)
    /\ run' = [run EXCEPT ![r] =
          [me EXCEPT !.pc = "stopped", !.epoch = epoch, !.networks = networks]]
    /\ checkpoints' =
          SaveTrainer(checkpoints, me.trial_directory, "discriminator",
                      networks["discriminator"], epoch, me.step)
    /\ UNCHANGED <<hist, clock, queue, console, forward>>

----------------------------------------------------------------------------
(* The operator console, Interface.train.                                  *)

StrSave == <<"s", "a", "v", "e">>
StrQuit == <<"q", "u", "i", "t">>
StrChangeLearningRate ==
    <<"c", "h", "a", "n", "g", "e", " ", "l", "e", "a", "r", "n", "i", "n", "g",
      " ", "r", "a", "t", "e">>

\* the lines the operator types
Lines ==
    {<<"s">>, <<"q">>, <<"l", " ", "2">>, <<"l", " ", "3">>,
     <<>>, <<"l">>, <<"l", "2">>}

\* str.startswith
StartsWith(string, prefix) ==
    /\ Len(string) >= Len(prefix)
    /\ SubSeq(string, 1, Len(prefix)) = prefix

PutsLoosePrefix(user_input) ==
    IF user_input = <<"s">> THEN <<StrSave>>
    ELSE IF user_input = <<"q">> THEN <<StrQuit>>
    ELSE IF StartsWith(user_input, <<"l">>)
         THEN <<StrChangeLearningRate, SubSeq(user_input, 3, Len(user_input))>>
    ELSE <<>>

\* the messages one pass of the `while True:` body puts on the queue
Puts(user_input) ==
    IF user_input = <<"s">> THEN <<StrSave>>
    ELSE IF user_input = <<"q">> THEN <<StrQuit>>
    ELSE IF StartsWith(user_input, <<"l", " ">>)
         THEN <<StrChangeLearningRate, SubSeq(user_input, 3, Len(user_input))>>
    ELSE <<>>

AfterInputKeepsReading(user_input) == "reading"

\* where the console is after the body: in network.join() after 'q'
AfterInput(user_input) == IF user_input = <<"q">> THEN "joining" ELSE "reading"

ConsoleIdle ==
    [pc |-> "off", user_input |-> <<>>, lines |-> <<>>, lines_read |-> 0,
     quit_step |-> -1]

\* self.network.start()
ConsoleStart(configs) ==
    /\ console.pc = "start"
    /\ LaunchEffect(1, configs, 1)
    /\ console' = [console EXCEPT !.pc = "reading"]
    /\ UNCHANGED <<checkpoints, clock, queue, forward>>

\* user_input = input() and the if/elif chain
ConsoleRead ==
    /\ console.pc = "reading"
    /\ console.lines_read < MaxLines
    /\ \E line \in Lines :
         /\ queue' = queue \o Puts(line)
         /\ console' = [console EXCEPT
               !.pc = AfterInput(line),
               !.user_input = line,
               !.lines = Append(@, line),
               !.lines_read = @ + 1,
               !.quit_step = IF line = <<"q">> THEN run[1].step ELSE @]
    /\ UNCHANGED <<run, hist, checkpoints, clock, forward>>

\* self.network.join() returns; break; print('Done.')
ConsoleJoin ==
    /\ console.pc = "joining"
    /\ Terminated(1)
    /\ console' = [console EXCEPT !.pc = "done"]
    /\ UNCHANGED <<run, hist, checkpoints, clock, queue, forward>>

----------------------------------------------------------------------------
(* The supervised losses of one batch.  The batch is put through the       *)
(* reductions one example at a time: .sum(1).sum(1) adds up the positions  *)
(* of one example, .mean() adds up the examples and divides by their       *)
(* number.  A mean is kept as the exact fraction sum / number.  The maps    *)
(* are one row of two positions, enough for the spatial sums to add up     *)
(* more than one value.                                                    *)

\* settings.loss_order
LossOrder == 1

\* height and width of a label map
ImageShape == <<1, 2>>

\* a map: ImageShape[1] rows of ImageShape[2] values
Maps(values) == [1..ImageShape[1] -> [1..ImageShape[2] -> values]]

\* one example of a batch: its label map and the two outputs of D for it
Examples ==
    [labels : Maps(0..MaxDensity),
     predicted_labels : Maps(0..MaxDensity),
     predicted_counts : (-1)..(ImageShape[1] * ImageShape[2] * MaxDensity)]

\* torch.abs
Abs(x) == IF x < 0 THEN -x ELSE x

\* Tensor.pow with a non-negative integer exponent
RECURSIVE Pow(_, _)
Pow(x, p) == IF p = 0 THEN 1 ELSE x * Pow(x, p - 1)

\* the sum of a vector
RECURSIVE SumTo(_, _)
SumTo(vector, n) == IF n = 0 THEN 0 ELSE vector[n] + SumTo(vector, n - 1)

\* .sum(1).sum(1) for one example: the rows are added up into one row, whose
\* values are then added up
SpatialSum(map) ==
    SumTo([j \in 1..ImageShape[2] |->
             SumTo([i \in 1..ImageShape[1] |-> map[i][j]], ImageShape[1])],
          ImageShape[2])

\* torch.abs(predicted_labels - labels).pow(loss_order).sum(1).sum(1), one example
DensityError(example) ==
    SpatialSum([i \in 1..ImageShape[1] |-> [j \in 1..ImageShape[2] |->
                  Pow(Abs(example.predicted_labels[i][j] - example.labels[i][j]),
                      LossOrder)]])

\* predicted_counts - labels.sum(1).sum(1), one example (the 'Count ME' scalar)
CountDifference(example) == example.predicted_counts - SpatialSum(example.labels)

CountErrorSigned(example) ==
    Pow(example.predicted_counts - SpatialSum(example.labels), LossOrder)

\* torch.abs(predicted_counts - labels.sum(1).sum(1)).pow(loss_order), one example
CountError(example) ==
    Pow(Abs(example.predicted_counts - SpatialSum(example.labels)), LossOrder)

\* .mean() over the examples of the batch
Mean(sum, number) == [numerator |-> sum, denominator |-> number]

\* loss = count_loss + (density_loss * 10); both means are over the same batch
SupervisedLoss(count_loss, density_loss) ==
    [numerator |-> count_loss.numerator + (density_loss.numerator * 10),
     denominator |-> count_loss.denominator]

\* no batch is being put through D
IdleForward ==
    [pc |-> "idle", examples |-> 0, density_sum |-> 0, count_sum |-> 0,
     count_me |-> Mean(0, 0),
     density_loss |-> Mean(0, 0), count_loss |-> Mean(0, 0), loss |-> Mean(0, 0),
     mismatched |-> 0]

\* the next example of the batch goes through the loss statements
ForwardExample ==
    /\ forward.pc = "batch"
    /\ forward.examples < MaxBatchSize
    /\ \E example \in Examples :
         LET number == forward.examples + 1
             density_sum == forward.density_sum + DensityError(example)
             count_sum == forward.count_sum + CountError(example)
             density_loss == Mean(density_sum, number)
             count_loss == Mean(count_sum, number)
         IN forward' =
               [pc |-> "batch", examples |-> number,
                density_sum |-> density_sum, count_sum |-> count_sum,
                count_me |-> Mean(forward.count_me.numerator + CountDifference(example),
                                  number),
                density_loss |-> density_loss, count_loss |-> count_loss,
                loss |-> SupervisedLoss(count_loss, density_loss),
                mismatched |->
                    IF example.predicted_counts = SpatialSum(example.labels)
                    THEN forward.mismatched ELSE forward.mismatched + 1]
    /\ UNCHANGED <<run, hist, checkpoints, clock, queue, console>>

----------------------------------------------------------------------------
(* Specifications.                                                         *)

Trainer(r, losses) ==
    \/ LoadTrainers(r)
    \/ CreateTrial(r)
    \/ BeginEpoch(r)
    \/ TrainStep(r, losses)
    \/ Validation(r, losses)
    \/ NextStep(r)
    \/ EndEpoch(r)
    \/ Finish(r)

InitCommon ==
    /\ run = [r \in Runs |-> IdleRun]
    /\ hist = [r \in Runs |-> FreshHist(0, IdleSettings.variant)]
    /\ checkpoints = {}
    /\ clock = 0
    /\ queue = <<>>

\* one run of any variant under any settings
TrainConfigs == SettingsSpace(Variants, {"cnn"}, 0..MaxEpochs)

Init == InitCommon /\ console = ConsoleIdle /\ forward = IdleForward

\* the loss values a batch can yield
LossValues == 0..MaxLoss

Next == Launch(1, TrainConfigs, 1) \/ Trainer(1, LossValues)

Spec == Init /\ [][Next]_vars

\* one experiment: a run, then later runs that may resume from its checkpoints
ResumeConfigs ==
    {c \in SettingsSpace(Variants, {"cnn"}, 0..MaxEpochs) :
        /\ c.train_size = MaxTrainSize
        /\ c.batch_size = MaxBatchSize
        /\ c.validation_size >= 1}

NextResume == Launch(1, ResumeConfigs, MaxLaunches) \/ Trainer(1, {MaxLoss})

SpecResume == Init /\ [][NextResume]_vars

\* a run started from the console
ConsoleConfigs ==
    {c \in SettingsSpace({"cnn", "srgan"}, {"cnn"}, {MaxEpochs}) :
        /\ c.summary_step_period = MaxSummaryPeriod
        /\ c.save_epoch_period = 1
        /\ c.train_size = MaxBatchSize
        /\ c.batch_size = 1
        /\ c.validation_size = 1}

InitConsole ==
    /\ InitCommon
    /\ console = [ConsoleIdle EXCEPT !.pc = "start"]
    /\ forward = IdleForward

NextConsole ==
    \/ ConsoleStart(ConsoleConfigs)
    \/ ConsoleRead
    \/ ConsoleJoin
    \/ Trainer(1, {MaxLoss})

SpecConsole == InitConsole /\ [][NextConsole]_vars

\* several runs started side by side
TrialNames == {"cnn", "srgan"}

TrialConfigs ==
    {c \in SettingsSpace(Variants, TrialNames, {1}) :
        /\ c.summary_step_period = 1
        /\ c.save_epoch_period = 1
        /\ c.train_size = MaxBatchSize
        /\ c.batch_size = 1
        /\ c.validation_size = 1}

NextTrials == \E r \in Runs : Launch(r, TrialConfigs, 1) \/ Trainer(r, {MaxLoss})

SpecTrials == Init /\ [][NextTrials]_vars

\* one run in which the validation loader can fail and the process can be
\* stopped while it saves
FaultConfigs ==
    {c \in SettingsSpace(Variants, {"cnn"}, 1..MaxEpochs) :
        /\ c.train_size = MaxTrainSize
        /\ c.batch_size = MaxBatchSize}

NextFaults ==
    \/ Launch(1, FaultConfigs, 1)
    \/ Trainer(1, {MaxLoss})
    \/ ValidationFails(1, {MaxLoss})
    \/ StopDuringSave(1)

SpecFaults == Init /\ [][NextFaults]_vars

\* one run of single-example batches, with the gradient penalty on or off
StepConfigs ==
    {[c EXCEPT !.gradient_penalty_on = on,
               !.learning_rate_multiplier_function = function] :
        c \in {d \in SettingsSpace(Variants, {"cnn"}, {MaxEpochs}) :
                  d.train_size = MaxTrainSize /\ d.batch_size = 1},
        on \in BOOLEAN,
        function \in MultiplierFunctions}

NextSteps == Launch(1, StepConfigs, 1) \/ Trainer(1, {MaxLoss})

SpecSteps == Init /\ [][NextSteps]_vars

\* an experiment whose runs (of process 1, the only one started) are
\* scheduled until they end
TermConfigs ==
    {c \in ResumeConfigs :
        /\ c.summary_step_period = MaxSummaryPeriod
        /\ c.save_epoch_period = MaxSavePeriod
        /\ c.validation_size = MaxValidationSize}

NextTerm == Launch(1, TermConfigs, MaxLaunches) \/ Trainer(1, {MaxLoss})

SpecTerm == Init /\ [][NextTerm]_vars /\ WF_vars(Trainer(1, {MaxLoss}))

\* one supervised batch of up to MaxBatchSize examples
InitLoss ==
    /\ InitCommon
    /\ console = ConsoleIdle
    /\ forward = [IdleForward EXCEPT !.pc = "batch"]

NextLoss == ForwardExample

SpecLoss == InitLoss /\ [][NextLoss]_vars

----------------------------------------------------------------------------
(* Properties.                                                             *)

InLoop(r) == run[r].pc \in {"while", "batch", "finished"}

Resumed(r) ==
    /\ LoadsCheckpoint(run[r].settings.variant)
    /\ run[r].settings.load_model_path # NoPath

\* the value of step when the batch loop of run r was entered
StartStep(r) == IF Resumed(r) THEN run[r].settings.load_model_path.step ELSE 0

\* the value of epoch when the epoch loop of run r was entered
StartEpoch(r) == IF Resumed(r) THEN run[r].settings.load_model_path.epoch ELSE 0

\* the steps of run r at which the claim wants a report
ReportSteps(r) ==
    {s \in StartStep(r)..(run[r].step - 1) :
        s # 0 /\ s % run[r].settings.summary_step_period = 0}

\* C1: in every variant the steps at which the training scalars were flushed
\* and a validation pass was reported are exactly the executed steps s with
\* s # 0 and s mod summary_step_period = 0, also in a run resumed from a
\* checkpoint with a non-zero step.
PeriodicReport ==
    \A r \in Runs : InLoop(r) =>
        /\ run[r].summary_writer.steps = ReportSteps(r)
        /\ run[r].validation_summary_writer.steps = ReportSteps(r)

\* a resumed run with period 2 has reported at some step and skipped another
PeriodicReportWitness ==
    /\ Resumed(1) /\ InLoop(1)
    /\ StartStep(1) > 0
    /\ run[1].settings.summary_step_period = 2
    /\ run[1].summary_writer.steps # {}
    /\ run[1].step - StartStep(1) >= 2

\* C2: every training scalar of a flush is the sum accumulated for its name
\* since the previous flush, with the number of examples processed since the
\* previous flush as divisor.
WindowedMean ==
    \A r \in Runs : \A rec \in run[r].summary_writer.last :
        /\ rec.scalar_sum = hist[r].closed.sums[rec.name]
        /\ rec.divisor = hist[r].closed.examples

\* is there a bundle of run r's trial directory for these counters
CheckpointAt(r, epoch, step) ==
    \E b \in checkpoints :
        /\ b.directory = run[r].trial_directory
        /\ b.epoch = epoch
        /\ b.step = step

\* C3: in every variant a checkpoint exists for every completed epoch that is
\* a positive multiple of save_epoch_period, and one for the final counters
\* once the epoch loop has ended.
CheckpointSchedule ==
    \A r \in Runs : InLoop(r) =>
        /\ \A e \in (StartEpoch(r) + 1)..run[r].epoch :
              e % run[r].settings.save_epoch_period = 0 =>
                 \E b \in checkpoints :
                    b.directory = run[r].trial_directory /\ b.epoch = e
        /\ run[r].pc = "finished" => CheckpointAt(r, run[r].epoch, run[r].step)

\* C4: every checkpoint of a run holds a bundle, under its own prefix, for
\* each network whose optimizer the run has stepped.
EveryOptimizedNetworkSaved ==
    \A r \in Runs : \A b \in checkpoints :
        (InLoop(r) /\ b.directory = run[r].trial_directory) =>
            \A role \in Roles :
                run[r].networks[role].optimizer > 0 =>
                    \E b2 \in checkpoints :
                        /\ b2.directory = b.directory
                        /\ b2.epoch = b.epoch
                        /\ b2.step = b.step
                        /\ b2.prefix = role

\* C5: a run started from a checkpoint saved with (e, s) enters the loop with
\* epoch = e and step = s, and at every point of every run the step counter is
\* the number of training steps, and the epoch counter the number of passes,
\* that produced the discriminator's parameters over all runs.
CountersRoundTrip ==
    \A r \in Runs :
        /\ (run[r].pc = "trial" /\ Resumed(r)) =>
              /\ run[r].epoch = run[r].settings.load_model_path.epoch
              /\ run[r].step = run[r].settings.load_model_path.step
        /\ (run[r].pc = "trial" \/ InLoop(r)) =>
              /\ run[r].step = run[r].networks["discriminator"].model.updates
              /\ run[r].epoch = run[r].networks["discriminator"].model.passes

\* a run resumed from a checkpoint with non-zero counters has trained on
CountersRoundTripWitness ==
    /\ Resumed(1)
    /\ run[1].pc = "finished"
    /\ run[1].settings.load_model_path.step > 0
    /\ run[1].step > run[1].settings.load_model_path.step
    /\ run[1].epoch > run[1].settings.load_model_path.epoch

\* C6: when load_model_path is set and loading the discriminator or the
\* generator bundle fails, the run has failed, has taken no training step and
\* has written no checkpoint.
LoadFailureIsFatal ==
    \A r \in Runs : hist[r].load_failed =>
        /\ run[r].pc = "failed"
        /\ hist[r].steps_run = 0
        /\ hist[r].saves = 0
        /\ \A role \in Roles :
              run[r].networks[role].optimizer
                 <= (IF role = "discriminator"
                     THEN run[r].settings.load_model_path.step ELSE 0)

\* the discriminator bundle was loaded and the generator bundle was rejected
LoadFailureIsFatalWitness ==
    /\ hist[1].load_failed
    /\ run[1].pc = "failed"
    /\ run[1].networks["discriminator"].model.updates > 0

\* C7: once quit has been requested the training process completes at most the
\* step in flight, and when the console's join has returned it has written
\* exactly one checkpoint.
QuitStopsTraining ==
    console.quit_step >= 0 =>
        /\ run[1].step <= console.quit_step + 1
        /\ console.pc = "done" => hist[1].saves = 1

\* the rate of the latest 'change learning rate' message on the queue
RequestedRates ==
    {i \in 1..(Len(queue) - 1) : queue[i] = StrChangeLearningRate}

ParseRate(string) ==
    IF string = <<"2">> THEN 2 ELSE IF string = <<"3">> THEN 3 ELSE 0

RequestedRate ==
    LET last == CHOOSE i \in RequestedRates : \A j \in RequestedRates : j <= i
    IN ParseRate(queue[last + 1])

\* C8: a training step taken after a learning-rate change command runs with
\* the requested rate, and the command itself leaves the counters and the
\* optimizer state alone.
LearningRateApplied ==
    [][/\ (run'[1].step = run[1].step + 1 /\ RequestedRates # {}) =>
             run[1].networks["discriminator"].lr = RequestedRate
       /\ queue' # queue => run' = run]_vars

Malformed(line) ==
    /\ line # <<"s">>
    /\ line # <<"q">>
    /\ ~(Len(line) >= 2 /\ line[1] = "l" /\ line[2] = " ")

\* C9: reading a line that is not 's', not 'q' and does not start with 'l '
\* puts nothing on the queue, leaves the training process alone and leaves
\* the console reading.
MalformedIgnored ==
    [][(console'.lines_read = console.lines_read + 1 /\ Malformed(console'.user_input)) =>
          /\ queue' = queue
          /\ run' = run
          /\ console'.pc = "reading"]_vars

\* a command was queued, then a malformed line was read and the console reads on
MalformedIgnoredWitness ==
    /\ console.pc = "reading"
    /\ console.lines_read >= 2
    /\ Malformed(console.user_input)
    /\ queue # <<>>
    /\ Alive(1)

\* C10: two runs alive at the same time have different trial directories.
UniqueTrialDirectories ==
    \A r1, r2 \in Runs :
        (r1 # r2 /\ run[r1].pc \in {"while", "batch"} /\ run[r2].pc \in {"while", "batch"}) =>
            run[r1].trial_directory # run[r2].trial_directory

\* C11: in every variant the validation pass of a report iterates the
\* batches of the validation dataset, each once, and no batch of the training
\* dataset, and every validation scalar it emits is the sum accumulated over
\* that pass with the validation set size as divisor.
ValidationPassOverValidationSet ==
    \A r \in Runs : run[r].validation_pass.loader # "none" =>
        /\ run[r].validation_pass.loader = "validation"
        /\ run[r].validation_pass.batches =
              NumBatches(run[r].settings.validation_size, run[r].settings.batch_size)
        /\ \A rec \in run[r].validation_summary_writer.last :
              /\ rec.divisor = run[r].settings.validation_size
              /\ rec.scalar_sum = ScalarAt(hist[r].validation_sums, rec.name)

\* C12: a run whose validation pass has failed is not aborted: it goes on
\* with the following training steps and, once its epoch loop has ended, has
\* written the final checkpoint.
ValidationFailureSkipped ==
    \A r \in Runs : hist[r].validation_failed =>
        /\ run[r].pc # "failed"
        /\ run[r].pc = "finished" => CheckpointAt(r, run[r].epoch, run[r].step)

\* is the bundle of the other network of b's checkpoint on disk
HasGeneratorBundle(b) ==
    \E g \in checkpoints :
        /\ g.prefix = "generator"
        /\ g.directory = b.directory
        /\ g.epoch = b.epoch
        /\ g.step = b.step

\* C13: a checkpoint is persisted atomically: wherever the process stops, no
\* discriminator bundle for some (epoch, step) is on disk without the
\* generator bundle for the same (epoch, step), and no bundle written earlier
\* is removed or altered.
CheckpointAtomic ==
    /\ [](\A b \in checkpoints : b.prefix = "discriminator" => HasGeneratorBundle(b))
    /\ [][\A b \in checkpoints : b \in checkpoints']_vars

\* the losses of the discriminator phase
DiscriminatorLosses ==
    {"supervised", "unlabeled", "fake", "feature norm", "gradient penalty"}

\* C14: in every training step of every variant the discriminator's gradients
\* are zeroed once, as the first statement of the step; every backward pass of
\* a discriminator-side loss of the step comes before the discriminator
\* optimizer's step, which therefore applies the gradient of each of them; and
\* the discriminator optimizer steps exactly once in the step.
DiscriminatorStepOrder ==
    \A r \in Runs : hist[r].ops # <<>> =>
        LET ops == hist[r].ops
            zeros == {i \in 1..Len(ops) : ops[i] = ZeroGrad("discriminator")}
            steps == {i \in 1..Len(ops) : ops[i] = Step("discriminator")}
            backs == {i \in 1..Len(ops) :
                         ops[i].kind = "backward" /\ ops[i].loss \in DiscriminatorLosses}
        IN /\ zeros = {1}
           /\ Cardinality(steps) = 1
           /\ backs # {}
           /\ \A i \in backs : \A j \in steps : i < j
           /\ \A i \in backs :
                 [loss |-> ops[i].loss, step |-> hist[r].applied["discriminator"].at]
                    \in hist[r].applied["discriminator"].gradients

\* an SRGAN run with the gradient penalty on has taken a second step, and its
\* discriminator optimizer applied the penalty's gradient
DiscriminatorStepOrderWitness ==
    /\ run[1].settings.variant = "srgan"
    /\ run[1].settings.gradient_penalty_on
    /\ hist[1].steps_run >= 2
    /\ \E g \in hist[1].applied["discriminator"].gradients :
          g.loss = "gradient penalty" /\ g.step >= 1

\* is the fraction a non-negative number
NonNegative(a) == a.denominator > 0 /\ a.numerator >= 0

\* C15: for every non-empty batch and loss order 1, density_loss >= 0 and
\* count_loss >= 0; count_loss = 0 exactly when the predicted count of every
\* example of the batch equals the spatial sum of its label; and the combined
\* supervised loss equals count_loss + 10 * density_loss.
SupervisedLossProperties ==
    (forward.examples >= 1 /\ LossOrder = 1) =>
        LET d == forward.density_loss
            c == forward.count_loss
            l == forward.loss
        IN /\ NonNegative(d)
           /\ NonNegative(c)
           /\ (c.numerator = 0) <=> (forward.mismatched = 0)
           /\ l.denominator > 0
           /\ l.numerator * c.denominator * d.denominator
                 = l.denominator * ((c.numerator * d.denominator)
                                      + (10 * d.numerator * c.denominator))

\* a batch of several examples whose count errors cancel in the signed mean
\* and not in count_loss, with a positive density loss
SupervisedLossWitness ==
    /\ forward.examples >= 2
    /\ forward.mismatched >= 2
    /\ forward.count_me.numerator = 0
    /\ forward.count_loss.numerator > 0
    /\ forward.density_loss.numerator > 0

\* C16: the validation pass of a report changes no training state: from its
\* start to its end no optimizer is stepped and no parameter updated, and the
\* step counter, the epoch counter, the training running scalars and the
\* running example count keep their values.
ValidationLeavesTrainingState ==
    [][\A r \in Runs :
          (run[r].pc = "validation" /\ run'[r].pc # "validation") =>
              /\ run'[r].networks = run[r].networks
              /\ run'[r].step = run[r].step
              /\ run'[r].epoch = run[r].epoch
              /\ run'[r].running_scalars = run[r].running_scalars
              /\ run'[r].running_example_count = run[r].running_example_count]_vars

\* a validation pass over at least one batch has just ended, after the flush
\* of a window of training steps
ValidationLeavesTrainingStateWitness ==
    /\ run[1].pc = "advance"
    /\ run[1].validation_pass.batches >= 1
    /\ run[1].validation_summary_writer.last # {}
    /\ run[1].summary_writer.last # {}
    /\ hist[1].steps_run >= 2

\* C17: in the GAN and SRGAN variants every generator optimizer step applies
\* the gradient of that same step's generator-loss backward pass and nothing
\* else (the generator's gradients are zeroed between any discriminator-phase
\* backward pass that reached the generator and the generator backward pass),
\* and no discriminator optimizer step applies gradient that a generator-loss
\* backward pass of an earlier step left on the discriminator's parameters.
GradientIsolation ==
    \A r \in Runs : run[r].settings.variant \in {"gan", "srgan"} =>
        LET ops == hist[r].ops
            g == hist[r].applied["generator"]
            d == hist[r].applied["discriminator"]
        IN /\ g.at >= 0 => g.gradients = {[loss |-> "generator", step |-> g.at]}
           /\ \A i, k \in 1..Len(ops) :
                 (/\ ops[i].kind = "backward" /\ ops[i].loss \in DiscriminatorLosses
                  /\ "generator" \in ops[i].reaches
                  /\ ops[k].kind = "backward" /\ ops[k].loss = "generator") =>
                     \E z \in (i + 1)..(k - 1) : ops[z] = ZeroGrad("generator")
           /\ \A x \in d.gradients : ~(x.loss = "generator" /\ x.step < d.at)

\* the GAN variant's generator has been stepped a second time, at a step whose
\* discriminator phase reached the generator, after steps that left
\* generator-loss gradient on the discriminator
GradientIsolationWitness ==
    /\ run[1].settings.variant = "gan"
    /\ hist[1].applied["generator"].at >= 5
    /\ hist[1].applied["discriminator"].at >= 5
    /\ \E i \in 1..Len(hist[1].ops) :
          /\ hist[1].ops[i].loss \in DiscriminatorLosses
          /\ "generator" \in hist[1].ops[i].reaches

Max(a, b) == IF a >= b THEN a ELSE b

\* the counters a run that has returned must show, from the counters (e0, s0)
\* it entered the epoch loop with
FinalCounters(r) ==
    LET s == run[r].settings
        batches == NumBatches(s.train_size, s.batch_size)
    IN /\ run[r].epoch = Max(StartEpoch(r), s.number_of_epochs)
       /\ run[r].step =
             StartStep(r) + (batches * Max(0, s.number_of_epochs - StartEpoch(r)))

\* how the counters move in one transition of a run that is in its epoch loop
CountersAdvance(r) ==
    run[r].pc \in {"while", "batch", "validation", "advance"} =>
        /\ run'[r].step \in {run[r].step, run[r].step + 1}
        /\ run'[r].epoch \in {run[r].epoch, run[r].epoch + 1}
        /\ (run'[r].step = run[r].step + 1) <=> (run'[r].batch = run[r].batch + 1)
        /\ (run'[r].epoch = run[r].epoch + 1) <=>
              (run[r].pc = "batch" /\ run'[r].pc = "while")
        /\ run'[r].epoch # run[r].epoch => run'[r].step = run[r].step

\* C18: for a training set of B >= 1 batches per pass, initial counters
\* (e0, s0) and any number_of_epochs, train() terminates; when it has returned,
\* epoch = max(e0, number_of_epochs) and step = s0 + B * max(0,
\* number_of_epochs - e0); step increases by exactly 1 per processed batch and
\* is not reset at an epoch boundary; epoch increases by exactly 1 per
\* completed pass.
TerminatesWithCounters ==
    /\ [](\A r \in Runs : run[r].pc = "finished" => FinalCounters(r))
    /\ [][\A r \in Runs : CountersAdvance(r)]_vars
    /\ Alive(1) ~> Terminated(1)

\* a run resumed from a checkpoint with non-zero counters has trained further
\* epochs and returned
TerminatesWithCountersWitness ==
    /\ run[1].pc = "finished"
    /\ Resumed(1)
    /\ StartEpoch(1) >= 1
    /\ StartStep(1) >= 1
    /\ run[1].settings.number_of_epochs > StartEpoch(1)
    /\ run[1].step >= StartStep(1) + NumBatches(MaxTrainSize, MaxBatchSize)

\* C19: no flush divides by zero: every flushed training scalar has an example
\* count of at least 1 as divisor (also at the first step of a run resumed at
\* a multiple of summary_step_period), and with an empty validation dataset no
\* validation scalar is divided by the dataset's size.
NoDivisionByZero ==
    \A r \in Runs :
        /\ \A rec \in run[r].summary_writer.last : rec.divisor >= 1
        /\ \A rec \in run[r].validation_summary_writer.last : rec.divisor >= 1
        /\ ~hist[r].zero_division

\* the messages the claim assigns to a sequence of input lines
RECURSIVE ExpectedMessages(_)
ExpectedMessages(lines) ==
    IF lines = <<>> THEN <<>>
    ELSE LET line == Head(lines)
             messages ==
                 IF line = <<"s">> THEN <<StrSave>>
                 ELSE IF line = <<"q">> THEN <<StrQuit>>
                 ELSE IF Len(line) >= 2 /\ line[1] = "l" /\ line[2] = " "
                      THEN <<StrChangeLearningRate, Tail(Tail(line))>>
                 ELSE <<>>
         IN messages \o ExpectedMessages(Tail(lines))

\* C20: for any sequence of input lines the messages on the queue are, in
\* input order, 'save' for each 's', the adjacent pair 'change learning rate',
\* <value> for each 'l <value>', and 'quit' for the first 'q'; after the first
\* 'q' no further line is read and no further message is put.
ConsoleQueueOrder ==
    /\ queue = ExpectedMessages(console.lines)
    /\ \A i \in 1..Len(console.lines) :
          console.lines[i] = <<"q">> =>
              /\ i = Len(console.lines)
              /\ console.pc \in {"joining", "done"}

\* a rate change, a save and a quit were read, in that order, and the console
\* has returned
ConsoleQueueOrderWitness ==
    /\ console.pc = "done"
    /\ Len(console.lines) = 3
    /\ console.lines[1] = <<"l", " ", "2">>
    /\ console.lines[2] = <<"s">>
    /\ console.lines[3] = <<"q">>
    /\ Len(queue) = 4

====
